---- MODULE Spec2Model ----
(***************************************************************************)
(* Startup and supervision kernel of the server (app.js).                  *)
(*                                                                         *)
(* The main script runs synchronously, statement by statement (pc walks    *)
(* Program); once it has returned (or thrown) the process serves events:   *)
(* the fs.watchFile callback, uncaught exceptions, unhandled rejections    *)
(* and process exit.                                                       *)
(***************************************************************************)
EXTENDS Integers, Sequences, FiniteSets, TLC

\* Number of external writes to config/config.js that are explored.
MaxEdits == 1

VARIABLES
    pc,            \* index into Program of the next top-level statement
    procState,     \* "starting" (main script running) | "running" | "exited"
    exitCode,      \* process exit code, -1 while alive
    startupFault,  \* 0, or the index of the statement that threw
    isMain,        \* require.main === module
    argv,          \* process.argv[2], "" when absent
    sockjs,        \* require.resolve('sockjs') succeeds
    file,          \* config/config.js on disk
    stat,          \* fs.Stats of config/config.js: mtime, and rev for the rest
    seenStat,      \* the Stats the watcher reported last (prev of the next callback)
    Config,        \* global.Config
    moduleCache,   \* require.cache[configPath]
    watching,      \* fs.watchFile listener installed
    initialized,   \* subsystem globals, in the order they were assigned
    laddersImpl,   \* module global.Ladders was loaded from
    groupCache,    \* snapshot Users.cacheGroupData last derived its cache from
    handlers,      \* installed process.on(...) handlers
    lockdown,      \* Rooms.global.lockdown
    fault,         \* the last fault raised: its origin, "none" before the first
    crashType,     \* classification crashlogger gave to the last uncaught fault
    calls,         \* Rooms.global methods called by the last step
    out,           \* console lines written by the last step
    listening,     \* Sockets.listen arguments, or <<>> while not listening
    workers,       \* capability -> worker process slot
    requests       \* request id -> request dispatched to a worker

vars == <<pc, procState, exitCode, startupFault, isMain, argv, sockjs, file, stat,
          seenStat, Config, moduleCache, watching, initialized,
          laddersImpl, groupCache, handlers, lockdown, fault, crashType, calls,
          out, listening, workers, requests>>

----------------------------------------------------------------------------
(* Configuration values                                                    *)

\* The options of config.js that app.js itself reads.
ConfigValues == [watchconfig : BOOLEAN, crashguard : BOOLEAN, remoteladder : BOOLEAN]

\* Stands for `undefined`: no snapshot.  `loaded' tells it from a snapshot.
NoConfig == [loaded |-> FALSE, watchconfig |-> FALSE, crashguard |-> FALSE,
             remoteladder |-> FALSE]

Snapshot(c) == [loaded |-> TRUE, watchconfig |-> c.watchconfig,
                crashguard |-> c.crashguard, remoteladder |-> c.remoteladder]

Snapshots == {Snapshot(c) : c \in ConfigValues}

\* A file on disk: absent, unparsable, or holding a configuration.
AbsentFile == [kind |-> "absent", cfg |-> NoConfig]
BrokenFile == [kind |-> "broken", cfg |-> NoConfig]
OkFile(s) == [kind |-> "ok", cfg |-> s]
Files == {AbsentFile, BrokenFile} \cup {OkFile(s) : s \in Snapshots}

\* config/config-example.js
ExampleConfig == Snapshot([watchconfig |-> TRUE, crashguard |-> TRUE,
                           remoteladder |-> FALSE])

\* require.resolve('./config/config') finds the module.
Resolves(f) == f.kind # "absent"

\* Evaluating the module file succeeds.
Parses(f) == f.kind = "ok"

\* The module's exports once evaluated.
Parse(f) == f.cfg

----------------------------------------------------------------------------
(* The main script                                                         *)

\* The subsystem globals, in the order app.js assigns them.
Subsystems == <<"Monitor", "Tools", "LoginServer", "Ladders", "Users",
                "Punishments", "Chat", "Rooms", "Tells", "Verifier",
                "Tournaments", "Dnsbl", "Sockets", "TeamValidator">>

\* The script with Monitor required before the configuration is loaded.
ProgramMonitorFirst ==
    <<"deps", "Monitor", "config", "watchconfig", "sqlite3", "Db",
      "Tools", "LoginServer", "Ladders", "Users",
      "Punishments", "Chat", "Rooms", "Tells",
      "Verifier", "Verifier.PM.spawn", "Tournaments",
      "Dnsbl", "Dnsbl.loadDatacenters", "crashguard",
      "Sockets", "listen", "Tools.includeFormats",
      "TeamValidator", "TeamValidator.PM.spawn", "repl">>

\* The script with the Verifier worker spawned after the crashguard block.
ProgramSpawnLate ==
    <<"deps", "config", "watchconfig", "sqlite3", "Db",
      "Monitor", "Tools", "LoginServer", "Ladders", "Users",
      "Punishments", "Chat", "Rooms", "Tells",
      "Verifier", "Tournaments",
      "Dnsbl", "Dnsbl.loadDatacenters", "crashguard", "Verifier.PM.spawn",
      "Sockets", "listen", "Tools.includeFormats",
      "TeamValidator", "TeamValidator.PM.spawn", "repl">>

\* The top-level statements of app.js, in order.
Program == <<"deps", "config", "watchconfig", "sqlite3", "Db",
             "Monitor", "Tools", "LoginServer", "Ladders", "Users",
             "Punishments", "Chat", "Rooms", "Tells",
             "Verifier", "Verifier.PM.spawn", "Tournaments",
             "Dnsbl", "Dnsbl.loadDatacenters", "crashguard",
             "Sockets", "listen", "Tools.includeFormats",
             "TeamValidator", "TeamValidator.PM.spawn", "repl">>

SubsystemNames == {Subsystems[i] : i \in 1..Len(Subsystems)}

Capabilities == {"Verifier", "TeamValidator"}

\* Index in Program of statement s.
StepOf(s) == CHOOSE i \in 1..Len(Program) : Program[i] = s

Stmt == IF pc \in 1..Len(Program) THEN Program[pc] ELSE "end"

Executing == procState = "starting" /\ pc \in 1..Len(Program)

----------------------------------------------------------------------------
(* Process exit and uncaught faults                                        *)

\* exitCodes, the table of the 'exit' handler.
ExitCodeTable(code) ==
    CASE code = 1 -> "Uncaught Fatal Exception"
      [] code = 2 -> "Misuse of shell builtins"
      [] code = 3 -> "Internal JavaScript Parse Error"
      [] code = 4 -> "Internal JavaScript Evaluation Failure"
      [] code = 5 -> "Fatal Error"
      [] code = 6 -> "Non-function Internal Exception Handler"
      [] code = 7 -> "Internal Exception Handler Run-Time Failure"
      [] code = 8 -> "Unused Error Code. Formerly used by nodejs. Sometimes indicate a uncaught exception"
      [] code = 9 -> "Invalid Argument"
      [] code = 10 -> "Internal JavaScript Run-Time Failure"
      [] code = 11 -> "A sysadmin forced an emergency exit"
      [] code = 12 -> "Invalid Debug Argument"
      [] code = 130 -> "Control-C via Terminal or Command Prompt"
      [] OTHER -> "undefined"

InExitCodeTable(code) == code \in (1..12) \cup {130}

\* exitInfo with the signal threshold taken inclusively.
ExitInfoThresholdInclusive(code) ==
    IF InExitCodeTable(code) THEN ExitCodeTable(code)
    ELSE IF code >= 128 THEN "Signal Exit"
    ELSE "Unused Error Code"

\* exitInfo as the 'exit' handler computes it for a non-zero code.
ExitInfo(code) ==
    IF InExitCodeTable(code) THEN ExitCodeTable(code)
    ELSE IF code > 128 THEN "Signal Exit"
    ELSE "Unused Error Code"

\* Console lines of the 'exit' handler.
ExitHandler(code) ==
    IF code # 0
    THEN <<"", "WARNING: Process exiting with code", ExitInfo(code),
           "Refer to the exit-codes documentation">>
    ELSE <<>>

\* The handlers the crashguard block installs.
CrashguardHandlers == {"uncaughtException", "unhandledRejection", "exit"}

\* Classifications require('./crashlogger') may return.
CrashTypes == {"lockdown", "crash"}

\* Exit codes the process is made to exit with (process.exit, signals).
ExitCodes == {0, 1, 13, 128, 130, 135}

\* The process ends with `code': 'exit' listeners run, then it is gone.
\* `pre' are the lines the step had already written.
Die(code, pre) ==
    /\ procState' = "exited"
    /\ exitCode' = code
    /\ out' = pre \o (IF "exit" \in handlers THEN ExitHandler(code) ELSE <<>>)
    /\ calls' = <<>>
    /\ UNCHANGED <<lockdown, crashType>>

\* Rooms.global.startLockdown(err): stop taking new work.
StartLockdown ==
    /\ calls' = <<"startLockdown">>
    /\ lockdown' = TRUE

\* Rooms.global.reportCrash(err): report, keep serving.
ReportCrash ==
    /\ calls' = <<"reportCrash">>
    /\ lockdown' = lockdown

\* A listener with the test on crashType the wrong way round.
UncaughtExceptionHandlerInverted(pre) ==
    \E t \in CrashTypes :
        /\ crashType' = t
        /\ IF t # "lockdown" THEN StartLockdown ELSE ReportCrash
        /\ procState' = "running"
        /\ out' = pre
        /\ exitCode' = exitCode

\* The 'uncaughtException' listener: classify, then lock down or report.
UncaughtExceptionHandler(pre) ==
    \E t \in CrashTypes :
        /\ crashType' = t
        /\ IF t = "lockdown" THEN StartLockdown ELSE ReportCrash
        /\ procState' = "running"
        /\ out' = pre
        /\ exitCode' = exitCode

\* An exception nothing caught: the listener if there is one, else the
\* platform default (exit code 1).
Uncaught(pre) ==
    IF "uncaughtException" \in handlers
    THEN UncaughtExceptionHandler(pre)
    ELSE Die(1, pre)

\* The requirer of app.js catches what the module threw and goes on.
RequirerCatches(pre) ==
    /\ procState' = "running"
    /\ out' = pre
    /\ calls' = <<>>
    /\ UNCHANGED <<exitCode, lockdown, crashType>>

\* A top-level statement of app.js throws: as the main module nothing is
\* above it; as a required module the exception goes to the requirer.
ScriptThrows(pre) ==
    /\ startupFault' = pc
    /\ fault' = "startup"
    /\ pc' = pc
    /\ IF isMain THEN Uncaught(pre)
       ELSE RequirerCatches(pre) \/ Uncaught(pre)

\* A top-level statement completes; after the last one the script returns.
Advance(pre) ==
    /\ pc' = pc + 1
    /\ procState' = IF pc = Len(Program) THEN "running" ELSE "starting"
    /\ out' = pre
    /\ calls' = <<>>
    /\ UNCHANGED <<startupFault, exitCode, lockdown, fault, crashType>>

----------------------------------------------------------------------------
(* Startup: the top-level statements of app.js                             *)

\* Lines 55-63: sockjs must resolve; the main module runs npm install when
\* it does not, a required module throws.
DependencyCheck ==
    /\ Executing /\ Stmt = "deps"
    /\ \/ /\ sockjs
          /\ Advance(<<>>)
          /\ UNCHANGED sockjs
       \/ /\ ~sockjs /\ ~isMain
          /\ ScriptThrows(<<>>)
          /\ UNCHANGED sockjs
       \/ /\ ~sockjs /\ isMain
          /\ \E installed \in BOOLEAN : sockjs' = installed
          /\ Advance(<<"Installing dependencies">>)
    /\ UNCHANGED <<isMain, argv, file, stat, seenStat, Config, moduleCache, watching,
                   initialized, laddersImpl, groupCache, handlers, listening,
                   workers, requests>>

\* A load that writes the example over config.js whether it exists or not.
LoadConfigOverwrites ==
    /\ Executing /\ Stmt = "config"
    /\ file' = OkFile(ExampleConfig)
    /\ Config' = ExampleConfig
    /\ moduleCache' = ExampleConfig
    /\ Advance(<<"config.js doesn't exist - creating one with default settings...">>)
    /\ UNCHANGED <<isMain, argv, sockjs, stat, seenStat, watching, initialized,
                   laddersImpl, groupCache, handlers, listening, workers,
                   requests>>

\* Lines 69-81: create config.js from config-example.js when it is missing,
\* then load it (the finally block).
LoadConfig ==
    /\ Executing /\ Stmt = "config"
    /\ \/ /\ ~Resolves(file)
          /\ file' = OkFile(ExampleConfig)
          /\ Config' = ExampleConfig
          /\ moduleCache' = ExampleConfig
          /\ Advance(<<"config.js doesn't exist - creating one with default settings...">>)
       \/ /\ Resolves(file) /\ Parses(file)
          /\ Config' = Parse(file)
          /\ moduleCache' = Parse(file)
          /\ Advance(<<>>)
          /\ UNCHANGED file
       \/ /\ Resolves(file) /\ ~Parses(file)
          /\ ScriptThrows(<<>>)
          /\ UNCHANGED <<file, Config, moduleCache>>
    /\ UNCHANGED <<isMain, argv, sockjs, stat, seenStat, watching, initialized,
                   laddersImpl, groupCache, handlers, listening, workers,
                   requests>>

\* Lines 83-96: install the file watcher when the snapshot asks for it.
WatchConfig ==
    /\ Executing /\ Stmt = "watchconfig"
    /\ IF Config.watchconfig
       THEN watching' = TRUE /\ seenStat' = stat
       ELSE UNCHANGED <<watching, seenStat>>
    /\ Advance(<<>>)
    /\ UNCHANGED <<isMain, argv, sockjs, file, stat, Config, moduleCache,
                   initialized, laddersImpl, groupCache, handlers, listening,
                   workers, requests>>

\* The module global.Ladders is loaded from (line 113).
LaddersModule(cfg) == IF cfg.remoteladder THEN "./ladders-remote" ELSE "./ladders"

\* The globals after `global.X = require(...)' of statement s.
AssignGlobal(globals, s) ==
    IF s \in SubsystemNames THEN Append(globals, s) ELSE globals

\* Lines 102-126, 131-133, 182, 205: global.X = require('./x').
RequireGlobal ==
    /\ Executing /\ Stmt \in {"sqlite3", "Db"} \cup SubsystemNames
    /\ initialized' = AssignGlobal(initialized, Stmt)
    /\ laddersImpl' = IF Stmt = "Ladders" THEN LaddersModule(Config) ELSE laddersImpl
    /\ Advance(<<>>)
    /\ UNCHANGED <<isMain, argv, sockjs, file, stat, seenStat, Config, moduleCache,
                   watching, groupCache, handlers, listening, workers, requests>>

\* Statements that run code of other modules, any of which may throw.
ThrowingStatements ==
    ({"sqlite3", "Db"} \cup SubsystemNames
        \cup {"Verifier.PM.spawn", "Dnsbl.loadDatacenters",
              "Tools.includeFormats", "TeamValidator.PM.spawn", "repl"})
    \cup (IF isMain THEN {"listen"} ELSE {})

StatementThrows ==
    /\ Executing /\ Stmt \in ThrowingStatements
    /\ ScriptThrows(<<>>)
    /\ UNCHANGED <<isMain, argv, sockjs, file, stat, seenStat, Config, moduleCache,
                   watching, initialized, laddersImpl, groupCache, handlers,
                   listening, workers, requests>>

\* Lines 134, 203, 212: calls into other modules that leave app.js's state alone.
CallExternal ==
    /\ Executing
    /\ Stmt \in {"Dnsbl.loadDatacenters", "Tools.includeFormats", "repl"}
    /\ Advance(<<>>)
    /\ UNCHANGED <<isMain, argv, sockjs, file, stat, seenStat, Config, moduleCache,
                   watching, initialized, laddersImpl, groupCache, handlers,
                   listening, workers, requests>>

\* The handlers installed whatever the snapshot says.
CrashguardAlways(cfg, h) == h \cup CrashguardHandlers

\* Lines 136-176: the handlers installed under the snapshot cfg.
CrashguardBlock(cfg, h) == IF cfg.crashguard THEN h \cup CrashguardHandlers ELSE h

InstallCrashguard ==
    /\ Executing /\ Stmt = "crashguard"
    /\ handlers' = CrashguardBlock(Config, handlers)
    /\ Advance(<<>>)
    /\ UNCHANGED <<isMain, argv, sockjs, file, stat, seenStat, Config, moduleCache,
                   watching, initialized, laddersImpl, groupCache, listening,
                   workers, requests>>

\* process.argv[2] and what lines 191-194 make of it.
Argv == {"", "8000", "abc"}
\* The command-line port left out: the listener always gets no port.
PortOfIgnoresArgument(arg) == "undefined"

PortOf(arg) == IF arg = "" THEN "undefined" ELSE IF arg = "8000" THEN "8000" ELSE "NaN"

\* Lines 184-196: define exports.listen; the main module listens at once.
Listen ==
    /\ Executing /\ Stmt = "listen"
    /\ IF isMain
       THEN listening' = <<PortOf(argv), "undefined", "undefined">>
       ELSE UNCHANGED listening
    /\ Advance(<<>>)
    /\ UNCHANGED <<isMain, argv, sockjs, file, stat, seenStat, Config, moduleCache,
                   watching, initialized, laddersImpl, groupCache, handlers,
                   workers, requests>>

----------------------------------------------------------------------------
(* Worker processes                                                        *)

\* Requests whose dispatch to a worker is explored.
MaxRequests == 2

RequestIds == 1..MaxRequests

NoWorker == [state |-> "none", respawns |-> 0, deaths |-> 0]

\* PM.spawn(): start the capability's process unless it is already running.
Spawn(w) == IF w.state \in {"starting", "ready"} THEN w ELSE [w EXCEPT !.state = "starting"]

\* Worker deaths explored per capability.
MaxDeaths == 1

\* Requests the manager holds for capability cap, waiting for an answer.
Pending(cap) == {r \in RequestIds : requests[r].cap = cap /\ requests[r].status = "pending"}

\* dispatch(capability, request): enqueue for the worker; a capability that
\* was never spawned or is degraded fails the request at once.  A worker
\* whose exit has not been delivered yet still gets requests queued.
Dispatch(r, cap) ==
    /\ procState = "running"
    /\ requests[r].status = "idle"
    /\ requests' = [requests EXCEPT ![r] =
          [cap |-> cap,
           status |-> IF workers[cap].state \in {"starting", "ready", "dead"}
                      THEN "pending" ELSE "WorkerUnavailable"]]
    /\ UNCHANGED <<pc, procState, exitCode, startupFault, isMain, argv, sockjs, file,
                   stat, seenStat, Config, moduleCache, watching, initialized,
                   laddersImpl, groupCache, handlers, lockdown, fault,
                   crashType, calls, out, listening, workers>>

\* The spawned process has come up.
WorkerReady(cap) ==
    /\ procState = "running"
    /\ workers[cap].state = "starting"
    /\ workers' = [workers EXCEPT ![cap].state = "ready"]
    /\ UNCHANGED <<pc, procState, exitCode, startupFault, isMain, argv, sockjs, file,
                   stat, seenStat, Config, moduleCache, watching, initialized,
                   laddersImpl, groupCache, handlers, lockdown, fault,
                   crashType, calls, out, listening, requests>>

\* The worker answers a request; the request's future resolves.
WorkerResponds(r) ==
    /\ procState = "running"
    /\ requests[r].status = "pending"
    /\ workers[requests[r].cap].state = "ready"
    /\ requests' = [requests EXCEPT ![r].status = "resolved"]
    /\ UNCHANGED <<pc, procState, exitCode, startupFault, isMain, argv, sockjs, file,
                   stat, seenStat, Config, moduleCache, watching, initialized,
                   laddersImpl, groupCache, handlers, lockdown, fault,
                   crashType, calls, out, listening, workers>>

\* The worker process terminates unexpectedly.
WorkerDies(cap) ==
    /\ procState = "running"
    /\ workers[cap].state \in {"starting", "ready"}
    /\ workers[cap].deaths < MaxDeaths
    /\ workers' = [workers EXCEPT ![cap].state = "dead",
                                  ![cap].deaths = workers[cap].deaths + 1]
    /\ UNCHANGED <<pc, procState, exitCode, startupFault, isMain, argv, sockjs, file,
                   stat, seenStat, Config, moduleCache, watching, initialized,
                   laddersImpl, groupCache, handlers, lockdown, fault,
                   crashType, calls, out, listening, requests>>

\* An exit handler that respawns but forgets the requests in flight.
OnWorkerExitDropsPending(cap) ==
    /\ procState = "running"
    /\ workers[cap].state = "dead"
    /\ \E respawned \in BOOLEAN :
          workers' = [workers EXCEPT
              ![cap].state = IF respawned THEN "starting" ELSE "degraded",
              ![cap].respawns = workers[cap].respawns + 1]
    /\ UNCHANGED <<pc, procState, exitCode, startupFault, isMain, argv, sockjs, file,
                   stat, seenStat, Config, moduleCache, watching, initialized,
                   laddersImpl, groupCache, handlers, lockdown, fault,
                   crashType, calls, out, listening, requests>>

\* The manager learns of the worker's exit: every pending request of the
\* capability fails with WorkerCrashed and one respawn is attempted; when
\* that fails the capability is degraded.
OnWorkerExit(cap) ==
    /\ procState = "running"
    /\ workers[cap].state = "dead"
    /\ requests' = [r \in RequestIds |->
          IF r \in Pending(cap) THEN [requests[r] EXCEPT !.status = "WorkerCrashed"]
                                ELSE requests[r]]
    /\ \E respawned \in BOOLEAN :
          workers' = [workers EXCEPT
              ![cap].state = IF respawned THEN "starting" ELSE "degraded",
              ![cap].respawns = workers[cap].respawns + 1]
    /\ UNCHANGED <<pc, procState, exitCode, startupFault, isMain, argv, sockjs, file,
                   stat, seenStat, Config, moduleCache, watching, initialized,
                   laddersImpl, groupCache, handlers, lockdown, fault,
                   crashType, calls, out, listening>>

\* Lines 127 and 206: Verifier.PM.spawn(), TeamValidator.PM.spawn().
SpawnWorker ==
    /\ Executing /\ Stmt \in {"Verifier.PM.spawn", "TeamValidator.PM.spawn"}
    /\ LET cap == IF Stmt = "Verifier.PM.spawn" THEN "Verifier" ELSE "TeamValidator"
       IN workers' = [workers EXCEPT ![cap] = Spawn(workers[cap])]
    /\ Advance(<<>>)
    /\ UNCHANGED <<isMain, argv, sockjs, file, stat, seenStat, Config, moduleCache,
                   watching, initialized, laddersImpl, groupCache, handlers,
                   listening, requests>>

----------------------------------------------------------------------------
(* Events served once the main script has returned                         *)

\* Another process writes, replaces or removes config/config.js.  Only a
\* watched file is followed: nothing else reads it after startup.
EditConfig ==
    /\ procState # "exited" /\ watching
    /\ stat.rev < MaxEdits
    /\ \E f \in Files, m \in {stat.mtime - 1, stat.mtime, stat.mtime + 1} :
          /\ file' = f
          /\ stat' = [mtime |-> m, rev |-> stat.rev + 1]
    /\ UNCHANGED <<pc, procState, exitCode, startupFault, isMain, argv, sockjs,
                   seenStat, Config, moduleCache, watching, initialized,
                   laddersImpl, groupCache, handlers, lockdown, fault,
                   crashType, calls, out, listening, workers, requests>>

\* The guard left out: the cache is notified whether Users exists or not.
HasUsersAlways == TRUE

\* Users has been assigned (global.Users is truthy).
HasUsers == \E i \in 1..Len(initialized) : initialized[i] = "Users"

\* A reload that assigns whatever the require produced, also when it failed.
ReloadAssignsFailedParse ==
    IF Parses(file)
    THEN /\ moduleCache' = Parse(file)
         /\ Config' = Parse(file)
         /\ groupCache' = IF HasUsers THEN Parse(file) ELSE groupCache
         /\ out' = <<"Reloaded config/config.js">>
    ELSE /\ moduleCache' = NoConfig
         /\ Config' = Parse(file)
         /\ out' = <<"Error reloading config/config.js">>
         /\ UNCHANGED groupCache

\* A reload that copies the new options into the old snapshot one by one
\* and stops half way.
ReloadMergesOptions ==
    IF Parses(file)
    THEN /\ moduleCache' = Parse(file)
         /\ Config' = [Config EXCEPT !.watchconfig = Parse(file).watchconfig]
         /\ groupCache' = IF HasUsers THEN Parse(file) ELSE groupCache
         /\ out' = <<"Reloaded config/config.js">>
    ELSE /\ moduleCache' = NoConfig
         /\ out' = <<"Error reloading config/config.js">>
         /\ UNCHANGED <<Config, groupCache>>

\* Lines 87-94, the try block of the watch callback.
Reload ==
    IF Parses(file)
    THEN /\ moduleCache' = Parse(file)
         /\ Config' = Parse(file)
         /\ IF HasUsers
            THEN \/ /\ groupCache' = Parse(file)
                    /\ out' = <<"Reloaded config/config.js">>
                 \/ /\ groupCache' = groupCache
                    /\ out' = <<"Error reloading config/config.js">>
            ELSE /\ groupCache' = groupCache
                 /\ out' = <<"Reloaded config/config.js">>
    ELSE /\ moduleCache' = NoConfig
         /\ out' = <<"Error reloading config/config.js">>
         /\ UNCHANGED <<Config, groupCache>>

\* The comparison made strict: an equal modification time reloads too.
NotNewerStrict(curr, prev) == curr.mtime < prev.mtime

\* Line 86: the callback returns at once unless the file is strictly newer.
NotNewer(curr, prev) == curr.mtime <= prev.mtime

\* The callback made to revisit a startup decision: it removes the watcher
\* when the snapshot it leaves current has watchconfig off.
WatchCallbackRevisitsWatcher ==
    /\ procState = "running" /\ watching
    /\ stat # seenStat
    /\ seenStat' = stat
    /\ IF NotNewer(stat, seenStat)
       THEN /\ out' = <<>>
            /\ UNCHANGED <<Config, moduleCache, groupCache>>
       ELSE Reload
    /\ watching' = Config'.watchconfig
    /\ calls' = <<>>
    /\ UNCHANGED <<pc, procState, exitCode, startupFault, isMain, argv, sockjs, file,
                   stat, initialized, laddersImpl, handlers, lockdown,
                   fault, crashType, listening, workers, requests>>

\* Lines 85-95: fs.watchFile's listener, called with the current and the
\* previous Stats whenever they differ.
WatchCallback ==
    /\ procState = "running" /\ watching
    /\ stat # seenStat
    /\ seenStat' = stat
    /\ IF NotNewer(stat, seenStat)
       THEN /\ out' = <<>>
            /\ UNCHANGED <<Config, moduleCache, groupCache>>
       ELSE Reload
    /\ calls' = <<>>
    /\ UNCHANGED <<pc, procState, exitCode, startupFault, isMain, argv, sockjs, file,
                   stat, watching, initialized, laddersImpl, handlers, lockdown,
                   fault, crashType, listening, workers, requests>>

\* Some callback of the running process throws and nothing catches it.
UncaughtException ==
    /\ procState = "running"
    /\ fault' = "exception"
    /\ Uncaught(<<>>)
    /\ UNCHANGED <<pc, startupFault, isMain, argv, sockjs, file, stat, seenStat,
                   Config, moduleCache, watching, initialized, laddersImpl,
                   groupCache, handlers, listening, workers, requests>>

\* A listener that only drops the rejection.
RejectionSwallowed(pre) ==
    /\ out' = pre
    /\ calls' = <<>>
    /\ UNCHANGED <<procState, exitCode, lockdown, crashType>>

\* Lines 146-148, the 'unhandledRejection' listener: `throw err', an
\* exception thrown out of a listener and caught by nothing.
UnhandledRejectionHandler(pre) == Uncaught(pre)

\* A promise is rejected and nothing handles it.  Without a listener the
\* platform warns and goes on, or (later platforms) ends the process.
UnhandledRejection ==
    /\ procState = "running"
    /\ fault' = "rejection"
    /\ IF "unhandledRejection" \in handlers
       THEN UnhandledRejectionHandler(<<>>)
       ELSE \/ /\ out' = <<"UnhandledPromiseRejectionWarning">>
               /\ calls' = <<>>
               /\ UNCHANGED <<procState, exitCode, lockdown, crashType>>
            \/ Die(1, <<>>)
    /\ UNCHANGED <<pc, startupFault, isMain, argv, sockjs, file, stat, seenStat,
                   Config, moduleCache, watching, initialized, laddersImpl,
                   groupCache, handlers, listening, workers, requests>>

\* The process exits: process.exit(code) somewhere, or a signal.
ProcessExit ==
    /\ procState = "running"
    /\ \E code \in ExitCodes : Die(code, <<>>)
    /\ UNCHANGED <<fault, pc, startupFault, isMain, argv, sockjs, file, stat, seenStat,
                   Config, moduleCache, watching, initialized, laddersImpl,
                   groupCache, handlers, listening, workers, requests>>

\* Lines 184-186: the requirer calls exports.listen(port, bindAddress, workerCount).
ExportsListen ==
    /\ procState = "running" /\ ~isMain
    /\ pc > Len(Program)
    /\ \E port \in {"8000", "undefined"}, bindAddress \in {"127.0.0.1", "undefined"},
          workerCount \in {"2"} :
          listening' = <<port, bindAddress, workerCount>>
    /\ out' = <<>>
    /\ calls' = <<>>
    /\ UNCHANGED <<pc, procState, exitCode, startupFault, isMain, argv, sockjs, file,
                   stat, seenStat, Config, moduleCache, watching, initialized,
                   laddersImpl, groupCache, handlers, lockdown, fault,
                   crashType, workers, requests>>

----------------------------------------------------------------------------
(* The program                                                             *)

Init ==
    /\ pc = 1
    /\ procState = "starting"
    /\ exitCode = -1
    /\ startupFault = 0
    /\ isMain \in BOOLEAN
    /\ argv \in (IF isMain THEN Argv ELSE {""})
    /\ sockjs \in BOOLEAN
    /\ file \in Files
    /\ stat = [mtime |-> MaxEdits, rev |-> 0]
    /\ seenStat = [mtime |-> MaxEdits, rev |-> 0]
    /\ Config = NoConfig
    /\ moduleCache = NoConfig
    /\ watching = FALSE
    /\ initialized = <<>>
    /\ laddersImpl = "none"
    /\ groupCache = NoConfig
    /\ handlers = {}
    /\ lockdown = FALSE
    /\ fault = "none"
    /\ crashType = "none"
    /\ calls = <<>>
    /\ out = <<>>
    /\ listening = <<>>
    /\ workers = [c \in Capabilities |-> NoWorker]
    /\ requests = [r \in RequestIds |-> [cap |-> "none", status |-> "idle"]]

Next ==
    \/ DependencyCheck
    \/ LoadConfig
    \/ WatchConfig
    \/ RequireGlobal
    \/ StatementThrows
    \/ CallExternal
    \/ SpawnWorker
    \/ InstallCrashguard
    \/ Listen
    \/ EditConfig
    \/ WatchCallback
    \/ UncaughtException
    \/ UnhandledRejection
    \/ ProcessExit
    \/ ExportsListen

Spec == Init /\ [][Next]_vars

\* The process after a complete startup as the main program from the
\* example configuration: both workers spawned, no request dispatched.
WorkerInit ==
    /\ pc = Len(Program) + 1
    /\ procState = "running"
    /\ exitCode = -1
    /\ startupFault = 0
    /\ isMain = TRUE
    /\ argv = ""
    /\ sockjs = TRUE
    /\ file = OkFile(ExampleConfig)
    /\ stat = [mtime |-> MaxEdits, rev |-> 0]
    /\ seenStat = [mtime |-> MaxEdits, rev |-> 0]
    /\ Config = ExampleConfig
    /\ moduleCache = ExampleConfig
    /\ watching = TRUE
    /\ initialized = Subsystems
    /\ laddersImpl = LaddersModule(ExampleConfig)
    /\ groupCache = NoConfig
    /\ handlers = CrashguardHandlers
    /\ lockdown = FALSE
    /\ fault = "none"
    /\ crashType = "none"
    /\ calls = <<>>
    /\ out = <<>>
    /\ listening = <<"undefined", "undefined", "undefined">>
    /\ workers = [c \in Capabilities |-> Spawn(NoWorker)]
    /\ requests = [r \in RequestIds |-> [cap |-> "none", status |-> "idle"]]

\* The worker manager's events in the running process.
WorkerNext ==
    \/ \E r \in RequestIds, cap \in Capabilities : Dispatch(r, cap)
    \/ \E cap \in Capabilities : WorkerReady(cap)
    \/ \E r \in RequestIds : WorkerResponds(r)
    \/ \E cap \in Capabilities : WorkerDies(cap)
    \/ \E cap \in Capabilities : OnWorkerExit(cap)

\* The event loop delivers a child's exit to the manager.
WorkerSpec ==
    /\ WorkerInit
    /\ [][WorkerNext]_vars
    /\ \A cap \in Capabilities : WF_vars(OnWorkerExit(cap))

----------------------------------------------------------------------------
(* Hot reload                                                              *)

\* The step is a watch callback whose curr.mtime is newer than prev.mtime.
ReloadAttempt ==
    /\ procState = "running" /\ watching
    /\ stat # seenStat /\ seenStat' = stat
    /\ stat.mtime > seenStat.mtime

\* C1: a hot-reload attempt whose re-parse of config.js fails leaves
\* global.Config the snapshot it was, logs the failure, and the process
\* keeps running.
C1_FailedReloadKeepsSnapshot ==
    [][(ReloadAttempt /\ ~Parses(file))
         => /\ Config' = Config
            /\ out' = <<"Error reloading config/config.js">>
            /\ procState' = "running"]_vars

\* A failed reload has just happened: the file does not parse, the callback
\* has seen its Stats and logged the error, the startup snapshot is current.
C1_Witness ==
    /\ procState = "running" /\ watching
    /\ stat.rev > 0 /\ seenStat = stat
    /\ ~Parses(file)
    /\ out = <<"Error reloading config/config.js">>
    /\ Config \in Snapshots

\* C2: a reload of an edit that parses swaps global.Config to the freshly
\* parsed snapshot, whole; nothing else changes global.Config while the
\* process runs (one swap per edit, and every later read returns the new
\* snapshot); a reader never sees options of two snapshots mixed.
C2_ReloadSwapsWholeSnapshot ==
    [][/\ (ReloadAttempt /\ Parses(file))
            => (Config' = Parse(file) /\ moduleCache' = Parse(file))
       /\ (procState = "running" /\ Config' # Config)
            => (ReloadAttempt /\ Parses(file) /\ Config' = Parse(file))
       /\ Config' \in {Config, Parse(file')}]_vars

\* A successful reload has just replaced the startup snapshot by one that
\* differs from it (Ladders was chosen under the other remoteladder value).
C2_Witness ==
    /\ procState = "running" /\ watching
    /\ stat.rev > 0 /\ seenStat = stat
    /\ Parses(file) /\ Config = Parse(file)
    /\ out = <<"Reloaded config/config.js">>
    /\ laddersImpl # "none" /\ laddersImpl # LaddersModule(Config)

----------------------------------------------------------------------------
(* Startup                                                                 *)

IsPrefix(s, t) == Len(s) <= Len(t) /\ \A i \in 1..Len(s) : s[i] = t[i]

\* C3: a top-level statement of the main program throws => the process
\* terminates; it never stays running with part of the subsystems.
\* (As a required module the exception is the requirer's to handle, so the
\* claim is stated for the top-level program, where app.js alone decides.)
C3_StartupFaultTerminates ==
    (isMain /\ startupFault # 0) => procState = "exited"

\* C6: the subsystem globals are assigned each once, in the order
\* Monitor .. TeamValidator, none before an earlier one, none before the
\* configuration snapshot is loaded; a startup that ran to its end has
\* assigned them all.
C6_SubsystemsOnceInOrder ==
    /\ IsPrefix(initialized, Subsystems)
    /\ (initialized # <<>> => Config \in Snapshots)
    /\ (pc > Len(Program) => initialized = Subsystems)

\* Startup ran to its end with every subsystem assigned.
C6_Witness ==
    /\ pc > Len(Program) /\ startupFault = 0
    /\ initialized = Subsystems
    /\ Config \in Snapshots

\* C7: with sockjs missing once the dependency check is over (it was
\* missing and the process is a required module, or it is still missing
\* after the install), startup has failed in that check: the configuration
\* is not loaded and no subsystem is initialized.
C7_MissingDependencyFailsFast ==
    (~sockjs /\ (pc > StepOf("deps") \/ startupFault # 0))
        => /\ startupFault = StepOf("deps")
           /\ Config = NoConfig
           /\ initialized = <<>>

----------------------------------------------------------------------------
(* Crash supervision                                                       *)

\* A fault reaches the process with the 'uncaughtException' listener installed.
SupervisedFault ==
    /\ "uncaughtException" \in handlers
    /\ \/ UncaughtException
       \/ (isMain /\ StatementThrows)

\* C4: with the listener installed, a fault classified 'lockdown' sets
\* the lockdown flag by startLockdown, any other classification calls only
\* reportCrash and leaves the flag as it was; exactly one of the two is
\* called per fault; the flag, once true, stays true.
C4_LockdownOnlyOnLockdownFault ==
    [][/\ SupervisedFault
            => /\ Len(calls') = 1
               /\ crashType' = "lockdown" => (calls' = <<"startLockdown">> /\ lockdown')
               /\ crashType' # "lockdown"
                    => (calls' = <<"reportCrash">> /\ lockdown' = lockdown)
       /\ lockdown => lockdown']_vars

\* A lockdown fault has just been handled in a process that then went on.
C4_Witness ==
    /\ procState = "running" /\ fault = "exception"
    /\ crashType = "lockdown" /\ calls = <<"startLockdown">> /\ lockdown

\* C8 as stated: in a process that started up completely and is running,
\* the supervisor is installed iff the configuration has crashguard enabled.
C8_SupervisorIffCrashguard ==
    (pc > Len(Program) /\ procState = "running")
        => (("uncaughtException" \in handlers) <=> Config.crashguard)

\* C8 amended: the crashguard block installs the three handlers iff the
\* snapshot current at that statement (the one loaded at startup) enables
\* crashguard; no other step installs or removes a handler; without the
\* listener an unhandled fault ends the process with code 1 and neither
\* reportCrash nor startLockdown is called.
C8_SupervisorFollowsStartupSnapshot ==
    [][/\ InstallCrashguard
            => handlers' = (IF Config.crashguard THEN CrashguardHandlers ELSE {})
       /\ handlers' # handlers => InstallCrashguard
       /\ ("uncaughtException" \notin handlers /\ UncaughtException)
            => (procState' = "exited" /\ exitCode' = 1 /\ calls' = <<>>
                /\ lockdown' = lockdown)]_vars

\* A fault has ended a process that started with crashguard disabled and
\* ran past the crashguard block.
C8_Witness ==
    /\ pc > StepOf("crashguard")
    /\ handlers = {}
    /\ fault = "exception" /\ procState = "exited" /\ exitCode = 1
    /\ calls = <<>>

\* An unhandled rejection reaches the 'unhandledRejection' listener.
SupervisedRejection == "unhandledRejection" \in handlers /\ UnhandledRejection

\* C9 as stated: with the supervisor installed an unhandled rejection is
\* fatal: the process does not go on after it.
C9_RejectionIsFatal ==
    [][SupervisedRejection => procState' = "exited"]_vars

\* C9 amended: with the supervisor installed an unhandled rejection is
\* rethrown and handled by the 'uncaughtException' listener like any other
\* unhandled fault: exactly one of reportCrash / startLockdown is called
\* for it (it is never swallowed), and the process keeps running.
C9_RejectionHandledAsCrash ==
    [][SupervisedRejection
         => /\ Len(calls') = 1
            /\ calls'[1] = (IF crashType' = "lockdown" THEN "startLockdown"
                                                      ELSE "reportCrash")
            /\ crashType' = "lockdown" => lockdown'
            /\ procState' = "running"]_vars

\* A rejection has just been reported as a contained crash.
C9_Witness ==
    /\ fault = "rejection" /\ "unhandledRejection" \in handlers
    /\ calls = <<"reportCrash">> /\ procState = "running"

\* x occurs in sequence seq.
Contains(seq, x) == \E i \in 1..Len(seq) : seq[i] = x

\* C10: whatever the configuration, a process that started up completely
\* and then ended with a non-zero code wrote the diagnostic for that code,
\* and one that ended with code 0 wrote none.
C10_ExitDiagnosticAlways ==
    (procState = "exited" /\ pc > Len(Program))
        => IF exitCode # 0 THEN Contains(out, ExitInfo(exitCode))
                           ELSE out = <<>>

----------------------------------------------------------------------------
(* Worker processes                                                        *)

\* C5: a request pending on a worker that has died is eventually failed
\* with WorkerCrashed; handling one death makes exactly one respawn attempt
\* and leaves no request of that worker pending, so later dispatches go to
\* the respawned worker (or fail at once when the respawn failed).
C5_PendingFailOnWorkerDeath ==
    /\ \A r \in RequestIds :
          (requests[r].status = "pending" /\ workers[requests[r].cap].state = "dead")
              ~> (requests[r].status = "WorkerCrashed")
    /\ [][\A cap \in Capabilities :
            (workers[cap].state = "dead" /\ workers'[cap].state # "dead")
                => /\ workers'[cap].respawns = workers[cap].respawns + 1
                   /\ \A r \in Pending(cap) : requests'[r].status = "WorkerCrashed"
                   /\ \A r \in RequestIds :
                        ~(requests'[r].cap = cap /\ requests'[r].status = "pending")]_vars
    /\ [](\A cap \in Capabilities : workers[cap].respawns <= workers[cap].deaths)

\* Every request was pending on the Verifier when it died; all have failed
\* with WorkerCrashed after one respawn attempt.
C5_Witness ==
    /\ \A r \in RequestIds :
          requests[r] = [cap |-> "Verifier", status |-> "WorkerCrashed"]
    /\ workers["Verifier"].deaths = 1 /\ workers["Verifier"].respawns = 1


----------------------------------------------------------------------------
(* Exit diagnostics                                                        *)

\* C11: a process that ended with the 'exit' handler installed wrote no
\* diagnostic for code 0, and for any other code the warning with: the
\* table's text for a code of the table {1..12, 130} (1 -> 'Uncaught Fatal
\* Exception'), 'Signal Exit' for a code outside the table above 128, and
\* 'Unused Error Code' for every other code; the code the process ended
\* with is the code the diagnostic is about.
C11_ExitDiagnosticByCode ==
    (procState = "exited" /\ "exit" \in handlers)
        => /\ exitCode \in ExitCodes
           /\ exitCode = 0 => out = <<>>
           /\ exitCode # 0 => Len(out) = 4
           /\ exitCode = 1 => out[3] = "Uncaught Fatal Exception"
           /\ exitCode = 130 => out[3] = "Control-C via Terminal or Command Prompt"
           /\ exitCode \in {129, 135} => out[3] = "Signal Exit"
           /\ exitCode \in {13, 128} => out[3] = "Unused Error Code"

\* A process with the handler installed has ended with code 135 and has
\* reported a signal exit.
C11_Witness ==
    /\ procState = "exited" /\ "exit" \in handlers
    /\ exitCode = 135
    /\ out = <<"", "WARNING: Process exiting with code", "Signal Exit",
               "Refer to the exit-codes documentation">>


----------------------------------------------------------------------------
(* Order of startup                                                        *)

\* A worker process of capability cap has been spawned.
Spawned(cap) == workers[cap].state # "none"

\* C12 as stated: no worker process is spawned before startup has passed
\* the crash supervisor's installation and the listener's activation.
C12_SpawnsAfterSupervisorAndListener ==
    \A cap \in Capabilities :
        Spawned(cap) => (pc > StepOf("crashguard") /\ pc > StepOf("listen"))

\* C12 amended: the dependency check precedes the configuration load, the
\* load precedes the watcher and every subsystem; the Verifier worker is
\* spawned once Verifier is loaded, and the crash supervisor is installed
\* only after Monitor .. Dnsbl and after that spawn; Sockets comes after
\* the crashguard block, the listener after Sockets, and the TeamValidator
\* worker is spawned last, with every subsystem loaded and (in the main
\* program) the listener active.
C12_StartupOrder ==
    /\ Config # NoConfig => pc > StepOf("deps")
    /\ (initialized # <<>> \/ watching) => Config # NoConfig
    /\ Spawned("Verifier") => Contains(initialized, "Verifier")
    /\ handlers # {} => (Contains(initialized, "Dnsbl") /\ Spawned("Verifier"))
    /\ Contains(initialized, "Sockets") => pc > StepOf("crashguard")
    /\ listening # <<>> => Contains(initialized, "Sockets")
    /\ Spawned("TeamValidator")
         => (initialized = Subsystems /\ (isMain => listening # <<>>))

\* Startup stands at the crashguard block: the Verifier worker is already
\* spawned, no handler is installed, nothing listens.
C12_Witness ==
    /\ procState = "starting" /\ pc = StepOf("crashguard")
    /\ Spawned("Verifier")
    /\ handlers = {} /\ listening = <<>>


----------------------------------------------------------------------------
(* First run                                                               *)

\* C13: loading the configuration with no config.js writes the example
\* template to it and makes the template's contents the snapshot, without
\* an error; with a config.js present the file is left as it is and, when
\* it loads, the snapshot is that file's contents.
C13_FirstRunCopiesTemplate ==
    [][LoadConfig
         => /\ ~Resolves(file)
                 => /\ file' = OkFile(ExampleConfig)
                    /\ Config' = ExampleConfig
                    /\ startupFault' = 0 /\ procState' = "starting"
            /\ Resolves(file)
                 => /\ file' = file
                    /\ startupFault' = 0 => Config' = Parse(file)
                    /\ Parses(file) => startupFault' = 0]_vars

\* The first run has just created config.js from the template and loaded it.
C13_Witness ==
    /\ procState = "starting" /\ pc = StepOf("config") + 1
    /\ out = <<"config.js doesn't exist - creating one with default settings...">>
    /\ file = OkFile(ExampleConfig)
    /\ Config = ExampleConfig


----------------------------------------------------------------------------
(* Hot reload at any time                                                  *)

\* The step is a call of the watch callback.
CallbackStep ==
    /\ procState = "running" /\ watching
    /\ stat # seenStat /\ seenStat' = stat

\* C14: whenever the watch callback runs, also in a process whose startup
\* stopped before Users was assigned, it returns normally: the process
\* keeps running, no fault is raised and nothing of Rooms.global is
\* called; the permission-group cache is touched only if Users exists, and
\* without Users a newer file that parses is swapped in and reported as
\* reloaded.
C14_ReloadSafeWithoutUsers ==
    [][CallbackStep
         => /\ procState' = "running" /\ exitCode' = exitCode
            /\ fault' = fault /\ startupFault' = startupFault
            /\ calls' = <<>> /\ lockdown' = lockdown
            /\ groupCache' # groupCache => Contains(initialized, "Users")
            /\ (stat.mtime > seenStat.mtime /\ Parses(file)
                  /\ ~Contains(initialized, "Users"))
                 => /\ Config' = Parse(file)
                    /\ groupCache' = groupCache
                    /\ out' = <<"Reloaded config/config.js">>]_vars

\* A reload has just succeeded in a process that never assigned Users.
C14_Witness ==
    /\ procState = "running" /\ watching
    /\ ~Contains(initialized, "Users") /\ startupFault # 0
    /\ stat.rev > 0 /\ seenStat = stat
    /\ Parses(file) /\ Config = Parse(file)
    /\ groupCache = NoConfig
    /\ out = <<"Reloaded config/config.js">>


----------------------------------------------------------------------------
(* Entry point                                                             *)

\* Argument triples a requirer passes to the exported listen().
ListenArguments ==
    {<<port, bindAddress, workerCount>> :
        port \in {"8000", "undefined"},
        bindAddress \in {"127.0.0.1", "undefined"},
        workerCount \in {"2"}}

\* C15: run as the top-level program, the listener is not active before the
\* listen statement and is active after it with the port of the command
\* line (the number given, or no port when the argument is absent) and no
\* other argument; loaded as a module, the listener is not active while the
\* script runs, and is active afterwards only with the three arguments of a
\* call of the exported listen(), workerCount included.
C15_EntryPoint ==
    /\ (isMain /\ pc <= StepOf("listen")) => listening = <<>>
    /\ (isMain /\ pc > StepOf("listen"))
         => /\ Len(listening) = 3
            /\ listening[2] = "undefined" /\ listening[3] = "undefined"
            /\ argv = "" => listening[1] = "undefined"
            /\ argv = "8000" => listening[1] = "8000"
    /\ (~isMain /\ (procState = "starting" \/ pc <= Len(Program)))
         => listening = <<>>
    /\ (~isMain /\ listening # <<>>) => listening \in ListenArguments

\* The main program has listened on the port of its command line.
C15_Witness ==
    /\ isMain /\ argv = "8000" /\ procState = "running"
    /\ listening = <<"8000", "undefined", "undefined">>


----------------------------------------------------------------------------
(* What triggers a reload                                                  *)

\* C16: a watch callback whose current modification time is less than or
\* equal to the previous one leaves the snapshot, the module cache and the
\* permission-group cache unchanged and logs nothing; one whose current
\* modification time is strictly greater logs its outcome, and when the file
\* parses, caches and installs the parsed snapshot and then, where Users
\* exists, notifies the group cache: the cache is recomputed from the new
\* snapshot unless the notification itself fails and is logged.
C16_ReloadOnlyOnNewerMtime ==
    [][CallbackStep
         => /\ stat.mtime <= seenStat.mtime
                 => /\ Config' = Config /\ moduleCache' = moduleCache
                    /\ groupCache' = groupCache /\ out' = <<>>
            /\ stat.mtime > seenStat.mtime
                 => /\ out' # <<>>
                    /\ Parses(file)
                         => /\ Config' = Parse(file)
                            /\ moduleCache' = Parse(file)
                            /\ Contains(initialized, "Users")
                                 => \/ groupCache' = Parse(file)
                                    \/ out' = <<"Error reloading config/config.js">>]_vars

\* The callback has run for a write that did not advance the modification
\* time, and the different file on disk has not been loaded.
C16_Witness ==
    /\ procState = "running" /\ watching
    /\ stat.rev = 1 /\ seenStat = stat /\ stat.mtime <= MaxEdits
    /\ Parses(file) /\ Parse(file) # Config /\ moduleCache = Config
    /\ out = <<>>


----------------------------------------------------------------------------
(* Outcomes of a reload                                                    *)

\* C17: every reload attempt ends in exactly one of two outcomes: success
\* is logged with the new snapshot current and, where Users exists, the
\* permission-group cache recomputed from it, or an error is logged with
\* the snapshot of before the attempt still current.
C17_ReloadAllOrNothing ==
    [][ReloadAttempt
         => \/ /\ out' = <<"Reloaded config/config.js">>
               /\ Config' = Parse(file)
               /\ Contains(initialized, "Users") => groupCache' = Config'
            \/ /\ out' = <<"Error reloading config/config.js">>
               /\ Config' = Config]_vars


----------------------------------------------------------------------------
(* Startup decisions and reloads                                           *)

\* C18: a watch callback, whatever the snapshot it installs, changes only
\* global.Config, the module cache and the Users group cache (and what it
\* logs): the installed process handlers, the file watcher, the Ladders
\* implementation, the initialised subsystems, the listener and the workers
\* stay as startup left them.
C18_ReloadKeepsStartupDecisions ==
    [][CallbackStep
         => /\ handlers' = handlers
            /\ watching' = watching
            /\ laddersImpl' = laddersImpl
            /\ initialized' = initialized
            /\ listening' = listening
            /\ workers' = workers
            /\ lockdown' = lockdown
            /\ pc' = pc /\ procState' = procState]_vars

\* After a successful reload of a fully started process the current
\* snapshot disagrees with startup on all three options, and the handlers,
\* the watcher and the Ladders implementation are still those of startup.
C18_Witness ==
    /\ procState = "running" /\ pc > Len(Program)
    /\ stat.rev > 0 /\ seenStat = stat
    /\ out = <<"Reloaded config/config.js">>
    /\ ~Config.watchconfig /\ watching
    /\ ~Config.crashguard /\ handlers = CrashguardHandlers
    /\ Config.remoteladder /\ laddersImpl = LaddersModule(ExampleConfig)

====
